---- MODULE Spec2Model ----
(***************************************************************************)
(* Model of the four command-line programs of the repository:              *)
(*   "catalog"  : registry_crane_curl.go  (src/unnamed/part_000)           *)
(*   "delete"   : delete_resolve_remote.go (src/go-crane-push)             *)
(*   "pullsave" : pull_and_save.go, first program of the file              *)
(*   "pullpush" : second program of src/go-creane-pull-save                *)
(* One behaviour of the model is one run of one program.  The registry,    *)
(* the network and the local filesystem are the environment: every call    *)
(* draws its answer from the outcomes the environment can produce.         *)
(* Names are sequences of characters where the code manipulates them as    *)
(* text (pull_and_save), and small integers where the code only forwards   *)
(* them (repository, tag and digest identities of the registry).           *)
(***************************************************************************)
EXTENDS Integers, Sequences, FiniteSets, TLC

\* ------------------------------------------------------------------ bounds
MaxLen == 3        \* longest --repo value of pull_and_save, in characters
MaxTagLen == 2     \* longest --tag value of pull_and_save, in characters
NumRepos == 2      \* repositories held by the registry
NumTags == 2       \* tag names
NumDigests == 2    \* manifest digests

\* ------------------------------------------------------- program constants
pullTimeout == 600     \* crane.WithContextTimeout(10*time.Minute), seconds
ctxHeadNone == 0
ctxHead == 10          \* context.WithTimeout(ctx, 10*time.Second), seconds
defaultTimeoutSec == 10
backgroundCtx == 0     \* context.Background(): no deadline

NotExited == -1
NoDigest == 0

Repos == 1..NumRepos
Tags == 1..NumTags
Digests == 1..NumDigests
\* a Content-Digest header in its own textual form, which is no manifest digest
ForeignDigest == NumDigests + 1

RepoChars == {"g", "/"}
TagChars == {"t", "/", "."}
SeqsUpTo(S, n) == UNION {[1..k -> S] : k \in 0..n}

\* --------------------------------------------------------- text operations
RECURSIVE StripTrailingSlashes(_)
StripTrailingSlashes(p) ==
    IF Len(p) > 0 /\ p[Len(p)] = "/"
    THEN StripTrailingSlashes(SubSeq(p, 1, Len(p) - 1))
    ELSE p

RECURSIVE AfterLastSlash(_)
AfterLastSlash(p) ==
    IF p = <<>> THEN <<>>
    ELSE IF p[Len(p)] = "/" THEN <<>>
    ELSE Append(AfterLastSlash(SubSeq(p, 1, Len(p) - 1)), p[Len(p)])

\* filepath.Base
filepathBase(path) ==
    IF path = <<>> THEN <<".">>
    ELSE LET s == StripTrailingSlashes(path)
             e == AfterLastSlash(s)
         IN IF e = <<>> THEN <<"/">> ELSE e

RECURSIVE SplitPath(_)
SplitPath(p) ==
    IF p = <<>> THEN << <<>> >>
    ELSE LET rest == SplitPath(Tail(p))
         IN IF Head(p) = "/" THEN << <<>> >> \o rest
            ELSE << <<Head(p)>> \o Head(rest) >> \o Tail(rest)

RECURSIVE CleanElems(_, _, _, _)
CleanElems(es, st, dotdot, rooted) ==
    IF es = <<>> THEN st
    ELSE LET e == Head(es)
         IN IF e = <<>> \/ e = <<".">>
            THEN CleanElems(Tail(es), st, dotdot, rooted)
            ELSE IF e = <<".", ".">>
            THEN IF Len(st) > dotdot
                 THEN CleanElems(Tail(es), SubSeq(st, 1, Len(st) - 1), dotdot, rooted)
                 ELSE IF ~rooted
                 THEN CleanElems(Tail(es), Append(st, e), Len(st) + 1, rooted)
                 ELSE CleanElems(Tail(es), st, dotdot, rooted)
            ELSE CleanElems(Tail(es), Append(st, e), dotdot, rooted)

RECURSIVE JoinSlash(_)
JoinSlash(es) ==
    IF es = <<>> THEN <<>>
    ELSE IF Len(es) = 1 THEN es[1]
    ELSE es[1] \o <<"/">> \o JoinSlash(Tail(es))

\* filepath.Clean
filepathClean(p) ==
    IF p = <<>> THEN <<".">>
    ELSE LET rooted == (p[1] = "/")
             body == JoinSlash(CleanElems(SplitPath(p), <<>>, 0, rooted))
         IN IF rooted THEN <<"/">> \o body
            ELSE IF body = <<>> THEN <<".">> ELSE body

\* filepath.Join of two elements
filepathJoin(a, b) ==
    IF a = <<>> /\ b = <<>> THEN <<>>
    ELSE IF a = <<>> THEN filepathClean(b)
    ELSE IF b = <<>> THEN filepathClean(a)
    ELSE filepathClean(a \o <<"/">> \o b)

folder == <<"downloaded-images">>

\* pull_and_save: the default output path
DefaultOutNoJoin(repo, tag) == filepathBase(repo) \o <<"_">> \o tag \o <<".tar">>
DefaultOut(repo, tag) ==
    filepathJoin(folder, filepathBase(repo) \o <<"_">> \o tag \o <<".tar">>)

\* fmt.Sprintf("%s/%s:%s", registry, repo, tag)
PullRef(registry, repo, tag) == <<registry, repo, tag>>

\* The registry serves only names of its reference grammar: a repository is
\* a list of non-empty components separated by single slashes, a tag is
\* non-empty, has no slash and does not start with a dot.
ValidRepoName(repo) ==
    /\ repo # <<>>
    /\ \A i \in 1..Len(SplitPath(repo)) : SplitPath(repo)[i] # <<>>
ValidTagName(tag) ==
    /\ tag # <<>>
    /\ tag[1] # "."
    /\ \A i \in 1..Len(tag) : tag[i] # "/"

\* ------------------------------------------------------------------- state
VARIABLES script, flags, pc, exitCode, blocked, log,
          reg, reg0, fs, fs0, cat, idx, digest, delRef, out, gcCmd, printed, head

vars == <<script, flags, pc, exitCode, blocked, log,
          reg, reg0, fs, fs0, cat, idx, digest, delRef, out, gcCmd, printed, head>>

Terminated == exitCode # NotExited

\* a call with a deadline returns when the peer never answers; a call
\* without one does not return
Outcome(timeoutSecs, answer) ==
    IF answer = "noanswer"
    THEN IF timeoutSecs > 0 THEN "timeout" ELSE "hang"
    ELSE answer

Answers == {"ok", "err", "noanswer"}

Call(c, a, r) == [call |-> c, arg |-> a, res |-> r]

\* log.Fatalf: os.Exit(1)
FatalExitZero == /\ exitCode' = 0
                 /\ pc' = "exited"
Fatal == /\ exitCode' = 1
         /\ pc' = "exited"

\* return from main
Return == /\ exitCode' = 0
          /\ pc' = "exited"

Running(s, p) == script = s /\ pc = p /\ exitCode = NotExited /\ ~blocked

EmptyRegistry == [r \in Repos |-> [t \in Tags |-> NoDigest]]

\* a repository in which every tag holds an image
FullRepo == [t \in Tags |-> ((t - 1) % NumDigests) + 1]

\* The registries a run starts from: the empty one, and those in which the
\* first repository holds any tags at all and the others are full.
Registries ==
    {EmptyRegistry} \cup
    {[r \in Repos |-> IF r = 1 THEN m ELSE FullRepo] :
        m \in [Tags -> Digests \cup {NoDigest}]}

\* --------------------------------------------------------- pull_and_save
InitPullSave ==
    /\ script = "pullsave"
    /\ flags \in [registry : {"localhost:5000"},
                  repo : SeqsUpTo(RepoChars, MaxLen),
                  tag : SeqsUpTo(TagChars, MaxTagLen),
                  out : {<<>>, <<"o">>, <<"d", "/", "o">>},
                  insecure : BOOLEAN]
    /\ reg = EmptyRegistry
    /\ fs \in SUBSET {folder}

\* lines 35-47: the --repo check and the choice of the output path
PrepareOutAlwaysMkdir ==
    /\ Running("pullsave", "start")
    /\ IF flags.repo = <<>>
       THEN Fatal /\ UNCHANGED <<log, fs, out>>
       ELSE \E r \in {"ok", "err"} :
              /\ log' = Append(log, Call("MkdirAll", folder, r))
              /\ IF r = "ok"
                 THEN /\ fs' = fs \cup {folder}
                      /\ out' = IF flags.out = <<>>
                                THEN DefaultOut(flags.repo, flags.tag)
                                ELSE flags.out
                      /\ pc' = "pull"
                      /\ UNCHANGED exitCode
                 ELSE Fatal /\ UNCHANGED <<fs, out>>
    /\ UNCHANGED <<script, flags, blocked, reg, reg0, fs0, cat, idx, digest,
                   delRef, gcCmd, printed, head>>
PrepareOut ==
    /\ Running("pullsave", "start")
    /\ IF flags.repo = <<>>
       THEN Fatal /\ UNCHANGED <<log, fs, out>>
       ELSE IF flags.out = <<>>
       THEN \E r \in {"ok", "err"} :
              /\ log' = Append(log, Call("MkdirAll", folder, r))
              /\ IF r = "ok"
                 THEN /\ fs' = fs \cup {folder}
                      /\ out' = DefaultOut(flags.repo, flags.tag)
                      /\ pc' = "pull"
                      /\ UNCHANGED exitCode
                 ELSE Fatal /\ UNCHANGED <<fs, out>>
       ELSE /\ out' = flags.out
            /\ pc' = "pull"
            /\ UNCHANGED <<exitCode, log, fs>>
    /\ UNCHANGED <<script, flags, blocked, reg, reg0, fs0, cat, idx, digest,
                   delRef, gcCmd, printed, head>>

\* lines 49-63: crane.Pull with the 10 minute deadline
PullSavePull ==
    /\ Running("pullsave", "pull")
    /\ \E a \in Answers :
         LET r == Outcome(pullTimeout, a)
             ref == PullRef(flags.registry, flags.repo, flags.tag)
         IN /\ a = "ok" => ValidRepoName(flags.repo) /\ ValidTagName(flags.tag)
            /\ log' = Append(log, Call("Pull", ref, r))
            /\ IF r = "ok" THEN pc' = "save" /\ UNCHANGED <<exitCode, blocked>>
               ELSE IF r = "hang" THEN blocked' = TRUE /\ UNCHANGED <<pc, exitCode>>
               ELSE Fatal /\ UNCHANGED blocked
    /\ UNCHANGED <<script, flags, reg, reg0, fs, fs0, cat, idx, digest,
                   delRef, out, gcCmd, printed, head>>

\* lines 65-71: crane.Save creates the file at out and writes the tarball;
\* a failed save has either not created the file or left it incomplete
PullSaveSave ==
    /\ Running("pullsave", "save")
    /\ \E r \in {"ok", "err"}, created \in BOOLEAN :
         /\ r = "ok" => created
         /\ log' = Append(log, Call("Save", out, r))
         /\ fs' = IF created THEN fs \cup {out} ELSE fs
         /\ IF r = "ok" THEN Return ELSE Fatal
    /\ UNCHANGED <<script, flags, blocked, reg, reg0, fs0, cat, idx, digest,
                   delRef, out, gcCmd, printed, head>>

\* ---------------------------------------------------------- pull and push
InitPullPush ==
    /\ script = "pullpush"
    /\ flags = [src |-> "busybox:latest", dstRepo |-> 1, dstTag |-> 1]
    /\ reg \in Registries
    /\ fs = {}

\* lines 88-94: crane.Pull(src, crane.WithContext(ctx))
PullPushPull ==
    /\ Running("pullpush", "start")
    /\ \E a \in Answers, d \in Digests :
         LET r == Outcome(backgroundCtx, a)
         IN /\ log' = Append(log, Call("Pull", flags.src, r))
            /\ IF r = "ok"
               THEN pc' = "push" /\ digest' = d /\ UNCHANGED <<exitCode, blocked>>
               ELSE IF r = "hang"
               THEN blocked' = TRUE /\ UNCHANGED <<pc, exitCode, digest>>
               ELSE Fatal /\ UNCHANGED <<blocked, digest>>
    /\ UNCHANGED <<script, flags, reg, reg0, fs, fs0, cat, idx,
                   delRef, out, gcCmd, printed, head>>

\* lines 96-106: crane.Push(img, dst, crane.Insecure, crane.WithContext(ctx))
PullPushPush ==
    /\ Running("pullpush", "push")
    /\ \E a \in Answers :
         LET r == Outcome(backgroundCtx, a)
         IN /\ log' = Append(log, Call("Push", <<flags.dstRepo, flags.dstTag>>, r))
            /\ IF r = "ok"
               THEN /\ reg' = [reg EXCEPT ![flags.dstRepo][flags.dstTag] = digest]
                    /\ Return /\ UNCHANGED blocked
               ELSE IF r = "hang"
               THEN blocked' = TRUE /\ UNCHANGED <<pc, exitCode, reg>>
               ELSE Fatal /\ UNCHANGED <<blocked, reg>>
    /\ UNCHANGED <<script, flags, reg0, fs, fs0, cat, idx, digest,
                   delRef, out, gcCmd, printed, head>>

\* --------------------------------------------------------------- registry
\* The registry maps every tag of every repository to a manifest digest.
TagList(r, repo) == {t \in Tags : r[repo][t] # NoDigest}

ManifestExists(r, repo, d) == \E t \in Tags : d # NoDigest /\ r[repo][t] = d

\* DELETE /v2/<repo>/manifests/<digest>: the manifest goes, and with it every
\* tag of that repository that pointed to it
RegistryDeleteManifest(r, repo, d) ==
    [r EXCEPT ![repo] = [t \in Tags |-> IF r[repo][t] = d THEN NoDigest
                                        ELSE r[repo][t]]]

RECURSIVE SortedSeq(_)
SortedSeq(S) ==
    IF S = {} THEN <<>>
    ELSE LET m == CHOOSE x \in S : \A y \in S : x <= y
         IN <<m>> \o SortedSeq(S \ {m})

\* GET /v2/_catalog: the repositories holding an image
RegistryCatalog(r) == SortedSeq({repo \in Repos : TagList(r, repo) # {}})

\* ------------------------------------------------- registry_crane_curl.go
InitCatalog ==
    /\ script = "catalog"
    /\ flags \in [registry : {<<"localhost:5000">>, <<"localhost:5000", "/">>},
                  repo : {0} \cup Repos,      \* 0: -repo not given ("")
                  tag : Tags,
                  doDelete : BOOLEAN,
                  doGC : BOOLEAN,
                  container : {"local-registry", "registry2"},
                  timeoutSec : {0, defaultTimeoutSec}]
    \* a flag the run never reads keeps its default value: -tag is read
    \* only with -delete, -container only with -delete and -gc
    /\ ~flags.doDelete => flags.tag = 1
    /\ ~(flags.doDelete /\ flags.doGC) => flags.container = "local-registry"
    /\ reg \in Registries
    /\ fs = {}

\* strings.TrimSuffix(s, "/")
TrimSuffix(s) ==
    IF Len(s) > 0 /\ s[Len(s)] = "/" THEN SubSeq(s, 1, Len(s) - 1) ELSE s

base == TrimSuffix(flags.registry)

\* http.Client{Timeout: timeout}: a Timeout of zero means no timeout
HTTPTimeout == flags.timeoutSec

\* fetchCatalog, on the response resp of the GET
fetchCatalog(resp) ==
    IF resp.err THEN [repositories |-> <<>>, err |-> TRUE]
    ELSE IF resp.status # 200 THEN [repositories |-> <<>>, err |-> TRUE]
    ELSE IF ~resp.decodes THEN [repositories |-> <<>>, err |-> TRUE]
    ELSE [repositories |-> resp.repositories, err |-> FALSE]

CatalogResponses(r) ==
    {[err |-> FALSE, status |-> 200, decodes |-> TRUE, repositories |-> RegistryCatalog(r)],
     [err |-> FALSE, status |-> 200, decodes |-> FALSE, repositories |-> <<>>],
     [err |-> FALSE, status |-> 500, decodes |-> TRUE, repositories |-> <<>>]}

TransportError == [err |-> TRUE, status |-> 0, decodes |-> FALSE, repositories |-> <<>>]

\* lines 45-57: step 1, the catalog
FetchCatalog ==
    /\ Running("catalog", "start")
    /\ \/ \E resp \in CatalogResponses(reg) :
            LET c == fetchCatalog(resp)
            IN /\ log' = Append(log, Call("Get", base, IF c.err THEN "err" ELSE "ok"))
               /\ IF c.err THEN Fatal /\ UNCHANGED <<cat, idx>>
                  ELSE /\ cat' = c.repositories
                       /\ idx' = 1
                       /\ pc' = "list"
                       /\ UNCHANGED exitCode
               /\ UNCHANGED blocked
       \/ \E a \in {"err", "noanswer"} :
            LET r == Outcome(HTTPTimeout, a)
            IN /\ log' = Append(log, Call("Get", base, r))
               /\ IF r = "hang"
                  THEN blocked' = TRUE /\ UNCHANGED <<pc, exitCode>>
                  ELSE /\ fetchCatalog(TransportError).err
                       /\ Fatal /\ UNCHANGED blocked
               /\ UNCHANGED <<cat, idx>>
    /\ UNCHANGED <<script, flags, reg, reg0, fs, fs0, digest, delRef, out,
                   gcCmd, printed, head>>

\* lines 59-81: step 2, one iteration of the loop over the catalog
ListTagsRetry ==
    /\ Running("catalog", "list")
    /\ idx <= Len(cat)
    /\ \E a \in Answers :
         LET r == Outcome(backgroundCtx, a)
         IN /\ log' = Append(log, Call("List", cat[idx], r))
            /\ IF r = "hang"
               THEN blocked' = TRUE /\ UNCHANGED <<idx, printed>>
               ELSE /\ idx' = IF r = "ok" \/ Len(log) >= 2 * NumRepos
                              THEN idx + 1 ELSE idx
                    /\ printed' = IF r = "ok"
                                  THEN Append(printed, [repo |-> cat[idx],
                                                        tags |-> TagList(reg, cat[idx])])
                                  ELSE printed
                    /\ UNCHANGED blocked
    /\ UNCHANGED <<script, flags, pc, exitCode, reg, reg0, fs, fs0, cat, digest,
                   delRef, out, gcCmd, head>>
ListTags ==
    /\ Running("catalog", "list")
    /\ idx <= Len(cat)
    /\ \E a \in Answers :
         LET r == Outcome(backgroundCtx, a)
         IN /\ log' = Append(log, Call("List", cat[idx], r))
            /\ IF r = "hang"
               THEN blocked' = TRUE /\ UNCHANGED <<idx, printed>>
               ELSE /\ idx' = idx + 1
                    /\ printed' = IF r = "ok"
                                  THEN Append(printed, [repo |-> cat[idx],
                                                        tags |-> TagList(reg, cat[idx])])
                                  ELSE printed
                    /\ UNCHANGED blocked
    /\ UNCHANGED <<script, flags, pc, exitCode, reg, reg0, fs, fs0, cat, digest,
                   delRef, out, gcCmd, head>>

\* lines 83-92: the exit without -delete and the -repo check
CheckDeleteUngated ==
    /\ Running("catalog", "list")
    /\ idx > Len(cat)
    /\ IF ~flags.doDelete /\ ~flags.doGC THEN Return
       ELSE IF flags.repo = 0 THEN Fatal
       ELSE pc' = "head" /\ UNCHANGED exitCode
    /\ UNCHANGED <<script, flags, blocked, log, reg, reg0, fs, fs0, cat, idx,
                   digest, delRef, out, gcCmd, printed, head>>
CheckDelete ==
    /\ Running("catalog", "list")
    /\ idx > Len(cat)
    /\ IF ~flags.doDelete THEN Return
       ELSE IF flags.repo = 0 THEN Fatal
       ELSE pc' = "head" /\ UNCHANGED exitCode
    /\ UNCHANGED <<script, flags, blocked, log, reg, reg0, fs, fs0, cat, idx,
                   digest, delRef, out, gcCmd, printed, head>>

\* resolveDigestHTTP, on the response resp of the HEAD
resolveDigestHTTPNoCheck(resp) ==
    IF resp.err THEN [digest |-> NoDigest, status |-> 0, err |-> TRUE]
    ELSE IF resp.status >= 400
    THEN [digest |-> NoDigest, status |-> resp.status, err |-> TRUE]
    ELSE LET d == IF resp.docker = NoDigest THEN resp.content ELSE resp.docker
         IN [digest |-> d, status |-> resp.status, err |-> FALSE]
resolveDigestHTTP(resp) ==
    IF resp.err THEN [digest |-> NoDigest, status |-> 0, err |-> TRUE]
    ELSE IF resp.status >= 400
    THEN [digest |-> NoDigest, status |-> resp.status, err |-> TRUE]
    ELSE LET d == IF resp.docker = NoDigest THEN resp.content ELSE resp.docker
         IN IF d = NoDigest
            THEN [digest |-> NoDigest, status |-> resp.status, err |-> TRUE]
            ELSE [digest |-> d, status |-> resp.status, err |-> FALSE]

\* HEAD /v2/<repo>/manifests/<tag>: 200 with the digest of the manifest in
\* the Docker-Content-Digest header, the Content-Digest header, both or
\* neither; 404 for an unknown tag; 500 at any time
HeadResponses(r, repo, tag) ==
    LET d == r[repo][tag]
    IN {[err |-> FALSE, status |-> 500, docker |-> NoDigest, content |-> NoDigest]}
       \cup (IF d = NoDigest
             THEN {[err |-> FALSE, status |-> 404, docker |-> NoDigest, content |-> NoDigest]}
             ELSE [err : {FALSE}, status : {200}, docker : {NoDigest, d},
                   content : {NoDigest, d, ForeignDigest}])

HeadTransportError == [err |-> TRUE, status |-> 0, docker |-> NoDigest, content |-> NoDigest]

\* lines 93-99: step 3, the digest of repo:tag
ResolveDigest ==
    /\ Running("catalog", "head")
    /\ \/ \E resp \in HeadResponses(reg, flags.repo, flags.tag) :
            LET res == resolveDigestHTTP(resp)
            IN /\ log' = Append(log, Call("Head", <<flags.repo, flags.tag>>,
                                          IF res.err THEN "err" ELSE "ok"))
               /\ head' = [resp |-> resp, res |-> res]
               /\ IF res.err THEN Fatal /\ UNCHANGED digest
                  ELSE /\ digest' = res.digest
                       /\ pc' = "delete"
                       /\ UNCHANGED exitCode
               /\ UNCHANGED blocked
       \/ \E a \in {"err", "noanswer"} :
            LET r == Outcome(HTTPTimeout, a)
            IN /\ log' = Append(log, Call("Head", <<flags.repo, flags.tag>>, r))
               /\ IF r = "hang"
                  THEN blocked' = TRUE /\ UNCHANGED <<pc, exitCode, head>>
                  ELSE /\ head' = [resp |-> HeadTransportError,
                                   res |-> resolveDigestHTTP(HeadTransportError)]
                       /\ resolveDigestHTTP(HeadTransportError).err
                       /\ Fatal /\ UNCHANGED blocked
               /\ UNCHANGED digest
    /\ UNCHANGED <<script, flags, reg, reg0, fs, fs0, cat, idx, delRef, out,
                   gcCmd, printed>>

\* fmt.Sprintf("%s/%s@%s", base, *repo, digest)
CatalogDelRefOtherTag(b, repo, d) ==
    <<b, repo, IF d = ForeignDigest THEN d ELSE (d % NumDigests) + 1>>
CatalogDelRef(b, repo, d) == <<b, repo, d>>

\* lines 101-115: step 4, crane.Delete on repo@digest
CatalogDelete ==
    /\ Running("catalog", "delete")
    /\ LET ref == CatalogDelRef(base, flags.repo, digest)
       IN /\ delRef' = ref
          /\ \E a \in Answers :
               LET r == Outcome(backgroundCtx, a)
               IN /\ a = "ok" => ManifestExists(reg, ref[2], ref[3])
                  /\ log' = Append(log, Call("Delete", ref, r))
                  /\ IF r = "ok"
                     THEN /\ reg' = RegistryDeleteManifest(reg, ref[2], ref[3])
                          /\ IF flags.doGC
                             THEN pc' = "gc" /\ UNCHANGED exitCode
                             ELSE Return
                          /\ UNCHANGED blocked
                     ELSE IF r = "hang"
                     THEN blocked' = TRUE /\ UNCHANGED <<pc, exitCode, reg>>
                     ELSE Fatal /\ UNCHANGED <<blocked, reg>>
    /\ UNCHANGED <<script, flags, reg0, fs, fs0, cat, idx, digest, out,
                   gcCmd, printed, head>>

\* runGarbageCollect: the arguments of exec.Command
GcCommand(container) ==
    <<"docker", "exec", "5a77465126df", "/bin/registry", "garbage-collect",
      "--delete-untagged", "/etc/docker/registry/config.yml">>

\* lines 117-126: step 5, garbage-collect; cmd.Run waits for the subprocess.
\* garbage-collect reclaims the storage of manifests no tag points to and
\* leaves every tag as it is.
RunGarbageCollect ==
    /\ Running("catalog", "gc")
    /\ gcCmd' = GcCommand(flags.container)
    /\ \E a \in Answers :
         LET r == Outcome(backgroundCtx, a)
         IN /\ log' = Append(log, Call("GC", GcCommand(flags.container), r))
            /\ IF r = "ok" THEN Return /\ UNCHANGED blocked
               ELSE IF r = "hang" THEN blocked' = TRUE /\ UNCHANGED <<pc, exitCode>>
               ELSE Fatal /\ UNCHANGED blocked
    /\ UNCHANGED <<script, flags, reg, reg0, fs, fs0, cat, idx, digest, delRef,
                   out, printed, head>>

\* ------------------------------------------------ delete_resolve_remote.go
InitDelete ==
    /\ script = "delete"
    /\ flags \in [refOK : BOOLEAN, registry : {<<"localhost:5000">>},
                  repo : Repos, tag : Tags]
    /\ reg \in Registries
    /\ fs = {}

\* lines 24-28: name.ParseReference
ParseReference ==
    /\ Running("delete", "start")
    /\ IF flags.refOK THEN pc' = "head" /\ UNCHANGED exitCode ELSE Fatal
    /\ UNCHANGED <<script, flags, blocked, log, reg, reg0, fs, fs0, cat, idx,
                   digest, delRef, out, gcCmd, printed, head>>

\* lines 30-49: remote.Head under the 10 second deadline, then the check of
\* the digest of the descriptor
RemoteHead ==
    /\ Running("delete", "head")
    /\ \E a \in Answers, d \in {NoDigest, reg[flags.repo][flags.tag]} :
         LET r == Outcome(ctxHead, a)
         IN /\ a = "ok" => reg[flags.repo][flags.tag] # NoDigest
            /\ log' = Append(log, Call("Head", <<flags.repo, flags.tag>>, r))
            /\ IF r = "hang"
               THEN blocked' = TRUE /\ UNCHANGED <<pc, exitCode, digest>>
               ELSE IF r = "ok" /\ d # NoDigest
               THEN /\ digest' = d
                    /\ pc' = "tags1"
                    /\ UNCHANGED <<exitCode, blocked>>
               ELSE Fatal /\ UNCHANGED <<blocked, digest>>
    /\ UNCHANGED <<script, flags, reg, reg0, fs, fs0, cat, idx, delRef, out,
                   gcCmd, printed, head>>

\* printTags, and the warning of its caller when it fails
printTags(at, then) ==
    /\ Running("delete", at)
    /\ \E a \in Answers :
         LET r == Outcome(backgroundCtx, a)
         IN /\ log' = Append(log, Call("List", flags.repo, r))
            /\ IF r = "hang"
               THEN blocked' = TRUE /\ UNCHANGED <<pc, exitCode, printed>>
               ELSE /\ printed' = IF r = "ok"
                                  THEN Append(printed, [repo |-> flags.repo,
                                                        tags |-> TagList(reg, flags.repo)])
                                  ELSE printed
                    /\ IF then = "exited" THEN Return
                       ELSE pc' = then /\ UNCHANGED exitCode
                    /\ UNCHANGED blocked
    /\ UNCHANGED <<script, flags, reg, reg0, fs, fs0, cat, idx, digest, delRef,
                   out, gcCmd, head>>

\* lines 51-54
PrintTagsBefore == printTags("tags1", "delete")

\* fmt.Sprintf("%s@%s", ref.Context().Name(), digest.String())
DeleteDelRefOtherRepo(registry, repo, d) == <<registry, (repo % NumRepos) + 1, d>>
DeleteDelRef(registry, repo, d) == <<registry, repo, d>>

\* lines 56-69: crane.Delete(delRef, crane.Insecure)
DeleteManifest ==
    /\ Running("delete", "delete")
    /\ LET ref == DeleteDelRef(flags.registry, flags.repo, digest)
       IN /\ delRef' = ref
          /\ \E a \in Answers :
               LET r == Outcome(backgroundCtx, a)
               IN /\ a = "ok" => ManifestExists(reg, ref[2], ref[3])
                  /\ log' = Append(log, Call("Delete", ref, r))
                  /\ IF r = "ok"
                     THEN /\ reg' = RegistryDeleteManifest(reg, ref[2], ref[3])
                          /\ pc' = "tags2"
                          /\ UNCHANGED <<exitCode, blocked>>
                     ELSE IF r = "hang"
                     THEN blocked' = TRUE /\ UNCHANGED <<pc, exitCode, reg>>
                     ELSE Fatal /\ UNCHANGED <<blocked, reg>>
    /\ UNCHANGED <<script, flags, reg0, fs, fs0, cat, idx, digest, out,
                   gcCmd, printed, head>>

\* lines 71-75
PrintTagsAfter == printTags("tags2", "exited")

\* ---------------------------------------------------------- specification
InitCommon ==
    /\ pc = "start"
    /\ exitCode = NotExited
    /\ blocked = FALSE
    /\ log = <<>>
    /\ reg0 = reg
    /\ fs0 = fs
    /\ cat = <<>>
    /\ idx = 0
    /\ digest = NoDigest
    /\ delRef = <<>>
    /\ out = <<>>
    /\ gcCmd = <<>>
    /\ printed = <<>>
    /\ head = <<>>

Init ==
    /\ \/ InitCatalog
       \/ InitDelete
       \/ InitPullSave
       \/ InitPullPush
    /\ InitCommon

Next ==
    \/ FetchCatalog
    \/ ListTags
    \/ CheckDelete
    \/ ResolveDigest
    \/ CatalogDelete
    \/ RunGarbageCollect
    \/ ParseReference
    \/ RemoteHead
    \/ PrintTagsBefore
    \/ DeleteManifest
    \/ PrintTagsAfter
    \/ PrepareOut
    \/ PullSavePull
    \/ PullSaveSave
    \/ PullPushPull
    \/ PullPushPush

Spec == Init /\ [][Next]_vars

\* a running program takes its next step; a blocked or exited one has none
FairSpec == Init /\ [][Next]_vars /\ WF_vars(Next)

\* ------------------------------------------------------------- properties
Failed(e) == e.res \in {"err", "timeout"}
LogIdx == 1..Len(log)
Called(c) == {i \in LogIdx : log[i].call = c}
Succeeded(c) == {i \in LogIdx : log[i].call = c /\ log[i].res = "ok"}
LastCall == log[Len(log)]

CounterC2 == gcCmd # <<>> => gcCmd[3] = flags.container

\* the calls that carry a deadline
Bounded(e) ==
    \/ script = "pullsave" /\ e.call = "Pull"
    \/ script = "delete" /\ e.call = "Head"
    \/ script = "catalog" /\ e.call \in {"Get", "Head"} /\ flags.timeoutSec > 0

\* C3 (as stated): every run eventually terminates.
OrigC3 == <>Terminated

\* C3 (amended): every run eventually terminates or is blocked in a call
\* that carries no deadline; the calls with a deadline (crane.Pull of
\* pull_and_save, remote.Head, and the catalog GET and manifest HEAD when
\* -timeout is positive) never block a run.
AmendC3 == <>(Terminated \/ (blocked /\ ~Bounded(LastCall)))

WitnessC3 == Terminated /\ log # <<>> /\ LastCall.res = "timeout"

DeleteDone == Succeeded("Delete") # {}

\* C4: after crane.Delete succeeded the tag of the command line is not in
\* the tag list of the repository, nor in the listing printed after the
\* delete.
C4TagGone ==
    script \in {"catalog", "delete"} /\ DeleteDone =>
        /\ flags.tag \notin TagList(reg, flags.repo)
        /\ (script = "delete" /\ LastCall.call = "List" /\ LastCall.res = "ok"
              => flags.tag \notin printed[Len(printed)].tags)

WitnessC4 ==
    /\ script = "delete" /\ DeleteDone
    /\ LastCall.call = "List" /\ LastCall.res = "ok"
    /\ flags.tag \in TagList(reg0, flags.repo)

\* the characters after the last slash
LastPathElement(p) ==
    LET slashes == {i \in 1..Len(p) : p[i] = "/"}
        last == IF slashes = {} THEN 0
                ELSE CHOOSE i \in slashes : \A j \in slashes : j <= i
    IN SubSeq(p, last + 1, Len(p))

ExpectedPath ==
    IF flags.out = <<>>
    THEN <<"downloaded-images", "/">> \o LastPathElement(flags.repo)
             \o <<"_">> \o flags.tag \o <<".tar">>
    ELSE flags.out

\* C5: the tarball is saved at downloaded-images/<last element of repo>_<tag>.tar
\* when --out is empty, with the folder created, and at --out otherwise, with
\* no folder created; the reference pulled is <registry>/<repo>:<tag>.
C5OutPath ==
    script = "pullsave" =>
        /\ \A i \in Succeeded("Save") : log[i].arg = ExpectedPath /\ ExpectedPath \in fs
        /\ flags.out = <<>> /\ Called("Pull") # {} => folder \in fs
        /\ flags.out # <<>> => Called("MkdirAll") = {} /\ (folder \in fs => folder \in fs0)
        /\ \A i \in Called("Pull") : log[i].arg = <<flags.registry, flags.repo, flags.tag>>

WitnessC5 ==
    /\ script = "pullsave" /\ exitCode = 0 /\ flags.out = <<>>
    /\ folder \notin fs0
    /\ LastPathElement(flags.repo) # flags.repo

\* C6 (as stated): a run of pull_and_save that ends in a fatal error leaves
\* the filesystem as it was.
OrigC6 == script = "pullsave" /\ exitCode = 1 => fs = fs0

\* C6 (amended): a run of pull_and_save removes nothing and adds at most the
\* folder downloaded-images (only when --out is empty; it stays when the run
\* then fails) and the file at the output path (only once crane.Save ran,
\* also when Save failed); a run without --repo leaves the filesystem as it
\* was.
AmendC6 ==
    script = "pullsave" =>
        /\ fs0 \subseteq fs
        /\ fs \ fs0 \subseteq {folder} \cup (IF Called("Save") # {} THEN {out} ELSE {})
        /\ folder \in fs \ fs0 => flags.out = <<>>
        /\ flags.repo = <<>> => fs = fs0

WitnessC6 ==
    /\ script = "pullsave" /\ exitCode = 1
    /\ log # <<>> /\ LastCall.call = "Pull" /\ Failed(LastCall)
    /\ folder \in fs \ fs0

\* C7: each call is attempted at most once in a run, remote.List at most
\* once per repository in the listing pass of the catalog script and at
\* most once in each of the two listings of the delete script.
C7NoRetry ==
    /\ \A c \in {"Get", "Head", "Pull", "Save", "Push", "Delete", "GC", "MkdirAll"} :
          Cardinality(Called(c)) <= 1
    /\ script = "catalog" =>
          \A r \in Repos : Cardinality({i \in Called("List") : log[i].arg = r}) <= 1
    /\ script = "delete" =>
          \A d \in Called("Delete") :
              /\ Cardinality({i \in Called("List") : i < d}) <= 1
              /\ Cardinality({i \in Called("List") : i > d}) <= 1
    /\ script = "delete" /\ Called("Delete") = {} => Cardinality(Called("List")) <= 1

WitnessC7 ==
    /\ script = "catalog" /\ exitCode = 1
    /\ \E i \in Called("List") : Failed(log[i])
    /\ LastCall.call = "GC" /\ Failed(LastCall)

\* C8: in the catalog script crane.Delete runs only with -delete, a -repo
\* and a resolved digest, after the catalog and the listing pass; the
\* garbage-collect runs only with -gc and -delete after a successful
\* delete; without -delete there is no HEAD, delete or garbage-collect and
\* the registry stays as it was.
C8Gating ==
    script = "catalog" =>
        /\ \A d \in Called("Delete") :
              /\ flags.doDelete /\ flags.repo # 0
              /\ \E h \in Succeeded("Head") : h < d
              /\ \E g \in Succeeded("Get") : g < d
              /\ idx > Len(cat)
              /\ \A l \in Called("List") : l < d
        /\ \A g \in Called("GC") :
              /\ flags.doGC /\ flags.doDelete
              /\ \E d \in Succeeded("Delete") : d < g
        /\ ~flags.doDelete =>
              /\ Called("Head") = {} /\ Called("Delete") = {} /\ Called("GC") = {}
              /\ reg = reg0

WitnessC8 ==
    /\ script = "catalog" /\ exitCode = 0
    /\ Succeeded("GC") # {}
    /\ Called("List") # {}

\* C9: resolveDigestHTTP returns no error only with a non-empty digest: an
\* error and the status for a status >= 400, the Docker-Content-Digest
\* value, else the Content-Digest value, else an error; status 0 on a
\* transport error; and the reference deleted is <registry>/<repo>@<digest>
\* with the non-empty digest the registry returned.
C9Digest ==
    /\ head # <<>> =>
         LET resp == head.resp
             res == head.res
         IN /\ ~res.err => res.digest # NoDigest
            /\ resp.err => res.err /\ res.status = 0
            /\ ~resp.err /\ resp.status >= 400 => res.err /\ res.status = resp.status
            /\ ~resp.err /\ resp.status < 400 =>
                  IF resp.docker # NoDigest THEN ~res.err /\ res.digest = resp.docker
                  ELSE IF resp.content # NoDigest
                       THEN ~res.err /\ res.digest = resp.content
                       ELSE res.err
            /\ res.err <=> exitCode = 1 /\ LastCall.call = "Head"
    /\ delRef # <<>> =>
         /\ delRef[3] # NoDigest
         /\ script = "catalog" =>
               /\ delRef = <<TrimSuffix(flags.registry), flags.repo, head.res.digest>>
               /\ delRef[3] \in {head.resp.docker, head.resp.content}
         /\ script = "delete" =>
               delRef = <<flags.registry, flags.repo, reg0[flags.repo][flags.tag]>>

WitnessC9 ==
    /\ script = "catalog" /\ delRef # <<>>
    /\ head.resp.docker = NoDigest /\ head.resp.content \in Digests
    /\ DeleteDone

\* C10: a delete run removes only tags of the given repository whose digest
\* is the one resolved from repo:tag; every other tag of every repository
\* keeps its digest.
C10Frame ==
    script \in {"catalog", "delete"} =>
        \A r \in Repos, t \in Tags :
            reg[r][t] # reg0[r][t] =>
                /\ DeleteDone
                /\ r = flags.repo
                /\ reg0[r][t] = reg0[flags.repo][flags.tag]
                /\ reg0[r][t] = digest
                /\ reg[r][t] = NoDigest

WitnessC10 ==
    /\ script \in {"catalog", "delete"} /\ DeleteDone
    /\ \E t \in Tags : reg[flags.repo][t] # NoDigest
    /\ \E r \in Repos : r # flags.repo /\ TagList(reg, r) # {}

====
